---- MODULE Spec2Model ----
(***************************************************************************)
(* The range-aware video streaming endpoint of app/api/video_stream_service *)
(* (GET /api/videos): path resolution, the metadata cache and the chunk     *)
(* cache (two cachetools.TTLCache instances), conditional requests, Range   *)
(* parsing and the two lazy byte producers, as a state machine.             *)
(*                                                                          *)
(* Text (filenames, subfolders, cache keys) is a sequence of one-character  *)
(* strings; a Range header is a sequence of tokens ("bytes=", "-", ",",     *)
(* digits, other characters); file content is a sequence of byte values.    *)
(* Paths follow pathlib.PurePosixPath: a sequence of components below "/".  *)
(***************************************************************************)
EXTENDS Integers, Sequences, FiniteSets, TLC

VARIABLES
    now,        \* time.monotonic()/wall clock, in seconds
    fs,         \* the file system: file location -> [exists, content, mtime]
    metaCache,  \* VIDEO_META_CACHE: sequence of [key, value, expires], least recently used first
    chunkCache, \* CHUNK_CACHE: the same shape, value = bytes
    req,        \* the request in flight or last answered: inputs, locals of get_video and of its byte producer, response
    prev,       \* a second request record: a request suspended at an await point while
                \* req runs, or an earlier completed 206 response set aside for comparison
    writes,     \* number of file system changes made by the environment so far
    hist        \* history, kept while hist.on: the keys each cache stores, in the
                \* order of their last use and of their last insertion (oldest first),
                \* and the request that wrote each metadata entry

vars == <<now, fs, metaCache, chunkCache, req, prev, writes, hist>>

----------------------------------------------------------------------------
(* Bounds of the model *)

MaxTicks == 2      \* the clock advances at most this many times
MaxWrites == 2     \* the environment changes the file system at most this many times
Overfill == 2      \* the capacity workload asks for this many keys more than a cache holds
FillSize == 7      \* the size of the file the capacity workload reads ranges of

(* Program constants *)

META_MAXSIZE == 50
META_TTL == 300
CHUNK_MAXSIZE == 25
CHUNK_TTL == 60
READ_SIZE == 65536
CHUNK_LIMIT == 1048576

----------------------------------------------------------------------------
(* Text *)

NoneStr == <<"N", "o", "n", "e">>

Absent == [some |-> FALSE, val |-> <<>>]

Some(s) == [some |-> TRUE, val |-> s]

\* str(x) inside an f-string: None renders as "None"
Fmt(opt) == IF opt.some THEN opt.val ELSE NoneStr

\* Python truthiness of an optional string: None and "" are falsy
Truthy(opt) == opt.some /\ opt.val # <<>>

Digits == <<"0", "1", "2", "3", "4", "5", "6", "7", "8", "9">>

IsDigit(c) == \E i \in 1..10 : Digits[i] = c

DigitVal(c) == (CHOOSE i \in 1..10 : Digits[i] = c) - 1

RECURSIVE Dec(_)
\* str(n) for n >= 0
Dec(n) == IF n < 10 THEN <<Digits[n + 1]>> ELSE Dec(n \div 10) \o <<Digits[(n % 10) + 1]>>

RECURSIVE IntOf(_)
\* int(s) of a non-empty string of decimal digits
IntOf(s) == IF Len(s) = 1 THEN DigitVal(s[1])
            ELSE 10 * IntOf(SubSeq(s, 1, Len(s) - 1)) + DigitVal(s[Len(s)])

\* int(s) raises ValueError unless s is a non-empty string of decimal digits
IntParses(s) == s # <<>> /\ \A i \in 1..Len(s) : IsDigit(s[i])

RECURSIVE SplitOn(_, _)
\* s.split(sep) for a one-character sep
SplitOn(s, sep) ==
    IF \A i \in 1..Len(s) : s[i] # sep THEN <<s>>
    ELSE LET i == CHOOSE k \in 1..Len(s) : s[k] = sep /\ \A j \in 1..(k - 1) : s[j] # sep
         IN  <<SubSeq(s, 1, i - 1)>> \o SplitOn(SubSeq(s, i + 1, Len(s)), sep)

Last(s) == s[Len(s)]

Front(s) == SubSeq(s, 1, Len(s) - 1)

RECURSIVE Flatten(_)
\* b"".join(chunks)
Flatten(ss) == IF ss = <<>> THEN <<>> ELSE Head(ss) \o Flatten(Tail(ss))

Min(a, b) == IF a < b THEN a ELSE b

----------------------------------------------------------------------------
(* Paths (pathlib.PurePosixPath) and the file system *)

\* VIDEO_DIR = /v
VIDEO_DIR == << <<"v">> >>

DotDot == <<".", ".">>

\* the components of one path segment: split on "/", empty and "." components dropped
PathParts(s) == SelectSeq(SplitOn(s, "/"), LAMBDA c : c # <<>> /\ c # <<".">>)

\* base / s: an absolute s replaces base
JoinPath(base, s) == IF s # <<>> /\ s[1] = "/" THEN PathParts(s) ELSE base \o PathParts(s)

\* PurePath.relative_to(root) succeeds iff root's components are a prefix of p's (no normalisation)
RelativeTo(p, root) == Len(p) >= Len(root) /\ SubSeq(p, 1, Len(root)) = root

\* the directories that exist: /, /v, /v/d, /v/-
Dirs == { <<>>, << <<"v">> >>, << <<"v">>, <<"d">> >>, << <<"v">>, <<"-">> >> }

RECURSIVE Walk(_, _)
\* the operating system's resolution of an absolute path: ".." is the parent
\* of the directory reached so far, every intermediate component must be a directory
Walk(cur, rest) ==
    IF rest = <<>> THEN [ok |-> TRUE, at |-> cur]
    ELSE IF cur \notin Dirs THEN [ok |-> FALSE, at |-> cur]
    ELSE IF Head(rest) = DotDot
         THEN Walk(IF cur = <<>> THEN cur ELSE Front(cur), Tail(rest))
         ELSE Walk(Append(cur, Head(rest)), Tail(rest))

\* where the path leads (the normalized location of the file it names)
RealPath(p) == Walk(<<>>, p).at

\* (variant: any path that leads to a known location counts, present or not)
IsFileUnchecked(fsys, p) ==
    LET w == Walk(<<>>, p)
    IN  w.ok /\ w.at \in DOMAIN fsys

\* Path.is_file()
IsFile(fsys, p) ==
    LET w == Walk(<<>>, p)
    IN  w.ok /\ w.at \in DOMAIN fsys /\ fsys[w.at].exists

\* the file system's own answer: a regular file is present where the path leads
PresentAt(fsys, p) ==
    LET loc == RealPath(p)
    IN  Walk(<<>>, p).ok /\ loc \in DOMAIN fsys /\ fsys[loc].exists

\* a normalized location lies strictly below the root
Inside(loc, root) == Len(loc) > Len(root) /\ SubSeq(loc, 1, Len(root)) = root

----------------------------------------------------------------------------
(* Dates and validators *)

\* a naive datetime: whole seconds and microseconds
DateTime(sec, us) == [sec |-> sec, us |-> us]

\* datetime.fromtimestamp(st_mtime): local time, the zone offset taken as 0
FromTimestamp(mtime) == DateTime(mtime.sec, mtime.us)

\* datetime.isoformat(): keeps the microseconds
IsoFormat(dt) == <<"iso", dt.sec, dt.us>>

\* datetime.fromisoformat()
FromIsoFormat(s) == DateTime(s[2], s[3])

\* strftime("%a, %d %b %Y %H:%M:%S GMT"): drops the microseconds
Strftime(dt) == <<"date", dt.sec>>

\* a header value in the format "%a, %d %b %Y %H:%M:%S GMT"
HttpDate(sec) == <<"date", sec>>

\* a header value strptime() rejects with ValueError
BadDate == <<"bad">>

StrptimeParses(h) == Len(h) = 2

\* datetime.strptime(h, "%a, %d %b %Y %H:%M:%S GMT")
Strptime(h) == DateTime(h[2], 0)

\* a >= b on naive datetimes
DateTimeGE(a, b) == a.sec > b.sec \/ (a.sec = b.sec /\ a.us >= b.us)

\* hashlib.md5(f"{file_size}-{last_modified}").hexdigest(), taken to be free of collisions
ETagOf(file_size, last_modified) == <<"md5", file_size, last_modified[2], last_modified[3]>>

\* an If-None-Match value that is no digest the server computes
OtherTag == <<"md5", -1, 0, 0>>

\* a header that is absent (or empty): falsy
NoHeader == <<>>

----------------------------------------------------------------------------
(* cachetools.TTLCache: a sequence of [key, value, expires], least recently used first *)

CacheIndex(c, k) == IF \E i \in 1..Len(c) : c[i].key = k
                    THEN CHOOSE i \in 1..Len(c) : c[i].key = k
                    ELSE 0

\* (variant: an entry still counts at the instant it expires)
UnexpiredInclusive(e, t) == t <= e.expires

\* an entry is expired once not (timer() < expires)
Unexpired(e, t) == t < e.expires

\* (variant: the time to live is not looked at)
CacheHasAny(c, k, t) == CacheIndex(c, k) # 0

\* key in cache (TTLCache.__contains__)
CacheHas(c, k, t) == CacheIndex(c, k) # 0 /\ Unexpired(c[CacheIndex(c, k)], t)

\* cache[key] for a key in the cache
CacheValue(c, k) == c[CacheIndex(c, k)].value

RemoveAt(c, i) == SubSeq(c, 1, i - 1) \o SubSeq(c, i + 1, Len(c))

\* (variant: a hit renews the entry's time to live)
CacheAfterGetRefresh(c, k, t) ==
    IF CacheHas(c, k, t)
    THEN LET i == CacheIndex(c, k)
         IN  Append(RemoveAt(c, i), [c[i] EXCEPT !.expires = t + META_TTL])
    ELSE c

\* (variant: a hit leaves the order of the keys as it is)
CacheAfterGetStays(c, k, t) == c

\* (variant: a hit moves the key to the least recently used end)
CacheAfterGetFront(c, k, t) ==
    IF CacheHas(c, k, t)
    THEN LET i == CacheIndex(c, k) IN <<c[i]>> \o RemoveAt(c, i)
    ELSE c

\* the cache after cache.get(key): a hit moves the key to the most recently used end
CacheAfterGet(c, k, t) ==
    IF CacheHas(c, k, t)
    THEN LET i == CacheIndex(c, k) IN Append(RemoveAt(c, i), c[i])
    ELSE c

\* TTLCache.expire(time)
Expire(c, t) == SelectSeq(c, LAMBDA e : Unexpired(e, t))

RECURSIVE Evict(_, _)
\* popitem() until there is room for one more
Evict(c, maxsize) == IF Len(c) + 1 > maxsize /\ c # <<>> THEN Evict(Tail(c), maxsize) ELSE c

\* (variant: a key that is live keeps the entry it has)
CacheSetIfAbsent(c, k, v, t, ttl, maxsize) ==
    LET alive == Expire(c, t)
        i == CacheIndex(alive, k)
    IN  IF i # 0 THEN alive
        ELSE Append(Evict(alive, maxsize), [key |-> k, value |-> v, expires |-> t + ttl])

\* cache[key] = value (TTLCache.__setitem__): expired entries are dropped, a new
\* key may evict the least recently used ones, the entry's time to live restarts
CacheSet(c, k, v, t, ttl, maxsize) ==
    LET alive == Expire(c, t)
        i == CacheIndex(alive, k)
        room == IF i = 0 THEN Evict(alive, maxsize) ELSE RemoveAt(alive, i)
    IN  Append(room, [key |-> k, value |-> v, expires |-> t + ttl])

\* history: an order of keys (oldest first) after key k was used or inserted
\* (acted) and the cache became c; keys that c no longer stores are forgotten
Noted(order, k, acted, c) ==
    LET o == IF acted THEN Append(SelectSeq(order, LAMBDA x : x # k), k) ELSE order
    IN  SelectSeq(o, LAMBDA x : CacheIndex(c, x) # 0)

\* history: the entry under key k is stored and has not expired at time t
Live(c, k, t) == \E i \in 1..Len(c) : c[i].key = k /\ t < c[i].expires

\* history: for each key the metadata cache stores, the request (filename,
\* subfolder) that wrote its entry, after a request for key k wrote (acted)
\* or not and the cache became c
NotedBy(by, k, filename, subfolder, acted, c) ==
    LET b == IF acted
             THEN Append(SelectSeq(by, LAMBDA x : x.key # k),
                         [key |-> k, filename |-> filename, subfolder |-> subfolder])
             ELSE by
    IN  SelectSeq(b, LAMBDA x : CacheIndex(c, x.key) # 0)

NoHist ==
    [on |-> FALSE, metaUse |-> <<>>, metaPut |-> <<>>, metaBy |-> <<>>,
     chunkUse |-> <<>>, chunkPut |-> <<>>]

----------------------------------------------------------------------------
(* The files *)

FileA == << <<"v">>, <<"a">> >>                      \* /v/a
FileD == << <<"v">>, <<"d">>, <<"a">> >>             \* /v/d/a
FileH == << <<"v">>, <<"-">>, <<"a">> >>             \* /v/-/a
FileOut == << <<"a">> >>                             \* /a, outside VIDEO_DIR

FileLocs == {FileA, FileD, FileH, FileOut}

NoFile == [exists |-> FALSE, content |-> <<>>, mtime |-> [sec |-> 0, us |-> 0]]

File(content, sec, us) == [exists |-> TRUE, content |-> content, mtime |-> [sec |-> sec, us |-> us]]

----------------------------------------------------------------------------
(* get_video *)

NoMeta == [etag |-> <<>>, last_modified |-> <<>>, file_size |-> -1]

NoEntry == [key |-> <<>>, value |-> NoMeta, expires |-> 0]

NoHeaders == [content_range |-> <<>>, content_length |-> <<>>, etag |-> <<>>, last_modified |-> <<>>]

NoHandle == [open |-> FALSE, loc |-> <<>>, orphan |-> FALSE, snap |-> <<>>]

\* no request yet
Idle ==
    [pc |-> "idle",
     \* the request
     filename |-> <<>>, subfolder |-> Absent, if_none_match |-> NoHeader,
     if_modified_since |-> NoHeader, range_header |-> <<>>,
     \* locals of get_video
     meta |-> NoMeta, video_path |-> <<>>, resolved |-> FALSE,
     file_size |-> -1, last_modified |-> <<>>, etag |-> <<>>,
     start |-> 0, end |-> 0,
     \* the response
     status |-> 0, headers |-> NoHeaders, body |-> <<>>, failed |-> FALSE,
     \* locals of the byte producer
     pos |-> 0, chunks |-> <<>>, fh |-> NoHandle,
     \* history: when the request arrived, the stored metadata entry under its key
     \* at that time (expired or not), whether its path named a regular file then,
     \* when the range producer started, whether it hit the chunk cache, how often
     \* the producer opened and read the file, when the blob it yielded was read
     \* from the file, whether the file changed after it was stat-ed, and
     \* whether the consumer went away before the producer had finished
     at |-> 0, old |-> NoEntry, was_file |-> FALSE, begun |-> 0, hit |-> FALSE,
     opens |-> 0, reads |-> 0, blob_at |-> 0, touched |-> FALSE, aborted |-> FALSE]

\* validate_filename: no "/" and no "\" in the name
ValidFilename(filename) == ~\E i \in 1..Len(filename) : filename[i] \in {"/", "\\"}

\* cache_key = f"{filename}-{subfolder}"
MetaKey(filename, subfolder) == filename \o <<"-">> \o Fmt(subfolder)

\* video_path = VIDEO_DIR / subfolder / filename, or VIDEO_DIR / filename
VideoPath(filename, subfolder) ==
    IF Truthy(subfolder)
    THEN JoinPath(JoinPath(VIDEO_DIR, subfolder.val), filename)
    ELSE JoinPath(VIDEO_DIR, filename)

\* (variant: If-None-Match is not looked at)
ConditionalDateOnly(meta, if_none_match, if_modified_since) ==
    IF if_modified_since = NoHeader THEN "proceed"
    ELSE IF ~StrptimeParses(if_modified_since) THEN "error"
    ELSE IF DateTimeGE(Strptime(if_modified_since), FromIsoFormat(meta.last_modified)) THEN "304"
    ELSE "proceed"

\* (variant: If-Modified-Since is looked at only when If-None-Match is absent)
ConditionalTagFirst(meta, if_none_match, if_modified_since) ==
    IF if_none_match # NoHeader
    THEN (IF if_none_match = meta.etag THEN "304" ELSE "proceed")
    ELSE IF if_modified_since = NoHeader THEN "proceed"
    ELSE IF ~StrptimeParses(if_modified_since) THEN "error"
    ELSE IF DateTimeGE(Strptime(if_modified_since), FromIsoFormat(meta.last_modified)) THEN "304"
    ELSE "proceed"

\* (variant: an If-Modified-Since that does not parse is ignored)
ConditionalLenient(meta, if_none_match, if_modified_since) ==
    IF if_none_match # NoHeader /\ if_none_match = meta.etag THEN "304"
    ELSE IF if_modified_since = NoHeader THEN "proceed"
    ELSE IF ~StrptimeParses(if_modified_since) THEN "proceed"
    ELSE IF DateTimeGE(Strptime(if_modified_since), FromIsoFormat(meta.last_modified)) THEN "304"
    ELSE "proceed"

\* the conditional checks against a warm entry (lines 71-80): "304", "error"
\* (strptime raises ValueError) or "proceed"
Conditional(meta, if_none_match, if_modified_since) ==
    IF if_none_match # NoHeader /\ if_none_match = meta.etag THEN "304"
    ELSE IF if_modified_since = NoHeader THEN "proceed"
    ELSE IF ~StrptimeParses(if_modified_since) THEN "error"
    ELSE IF DateTimeGE(Strptime(if_modified_since), FromIsoFormat(meta.last_modified)) THEN "304"
    ELSE "proceed"

\* range_header.replace("bytes=", "").split("-")
RangeParts(range_header) == SplitOn(SelectSeq(range_header, LAMBDA x : x # "bytes="), "-")

\* start, end = ...; int(start); int(end) if end else file_size - 1 raise no ValueError
RangeParses(range_header) ==
    LET parts == RangeParts(range_header)
    IN  /\ Len(parts) = 2
        /\ IntParses(parts[1])
        /\ parts[2] # <<>> => IntParses(parts[2])

RangeStart(range_header) == IntOf(RangeParts(range_header)[1])

RangeEnd(range_header, file_size) ==
    LET e == RangeParts(range_header)[2]
    IN  IF e # <<>> THEN IntOf(e) ELSE file_size - 1

\* (variant: the bounds compared with > instead of >=)
UnsatisfiableStrict(start, end, file_size) == start > file_size \/ end > file_size

\* if start >= file_size or end >= file_size: 416
Unsatisfiable(start, end, file_size) == start >= file_size \/ end >= file_size

\* the entry written at lines 104-113
StatEntry(f) ==
    LET last_modified == IsoFormat(FromTimestamp(f.mtime))
    IN  [etag |-> ETagOf(Len(f.content), last_modified),
         last_modified |-> last_modified,
         file_size |-> Len(f.content)]

\* the request record once get_video has returned or raised, and the metadata
\* cache it leaves: [r, cache]
Handle(filename, subfolder, if_none_match, if_modified_since, range_header, cache, fsys, t) ==
    LET cache_key == MetaKey(filename, subfolder)
        warm == CacheHas(cache, cache_key, t)
        meta == IF warm THEN CacheValue(cache, cache_key) ELSE NoMeta
        cache1 == CacheAfterGet(cache, cache_key, t)
        r0 == [Idle EXCEPT !.pc = "done", !.filename = filename, !.subfolder = subfolder,
                           !.if_none_match = if_none_match,
                           !.if_modified_since = if_modified_since,
                           !.range_header = range_header, !.meta = meta, !.at = t,
                           !.was_file = PresentAt(fsys, VideoPath(filename, subfolder)),
                           !.old = IF CacheIndex(cache, cache_key) = 0 THEN NoEntry
                                   ELSE cache[CacheIndex(cache, cache_key)]]
        cond == IF warm THEN Conditional(meta, if_none_match, if_modified_since) ELSE "proceed"
        video_path == VideoPath(filename, subfolder)
        r1 == [r0 EXCEPT !.video_path = video_path]
        entry == StatEntry(fsys[RealPath(video_path)])
        r2 == [r1 EXCEPT !.resolved = TRUE, !.file_size = entry.file_size,
                         !.last_modified = entry.last_modified, !.etag = entry.etag]
        cache2 == CacheSet(cache1, cache_key, entry, t, META_TTL, META_MAXSIZE)
        start == RangeStart(range_header)
        end == RangeEnd(range_header, entry.file_size)
    IN  IF cond = "304" THEN [r |-> [r0 EXCEPT !.status = 304], cache |-> cache1]
        ELSE IF cond = "error" THEN [r |-> [r0 EXCEPT !.status = 500], cache |-> cache1]
        ELSE IF ~ValidFilename(filename) THEN [r |-> [r0 EXCEPT !.status = 400], cache |-> cache1]
        ELSE IF ~IsFile(fsys, video_path) THEN [r |-> [r1 EXCEPT !.status = 404], cache |-> cache1]
        ELSE IF ~RelativeTo(video_path, VIDEO_DIR)
             THEN [r |-> [r1 EXCEPT !.status = 400], cache |-> cache1]
        ELSE IF range_header # <<>>
             THEN IF ~RangeParses(range_header)
                  THEN [r |-> [r2 EXCEPT !.status = 500], cache |-> cache2]
                  ELSE IF Unsatisfiable(start, end, entry.file_size)
                  THEN [r |-> [r2 EXCEPT !.status = 416, !.start = start, !.end = end],
                        cache |-> cache2]
                  ELSE [r |-> [r2 EXCEPT !.status = 206, !.start = start, !.end = end,
                                         !.pc = "range_begin", !.pos = start,
                                         !.headers = [NoHeaders EXCEPT
                                             !.content_range = <<start, end, entry.file_size>>,
                                             !.content_length = <<end - start + 1>>]],
                        cache |-> cache2]
             ELSE [r |-> [r2 EXCEPT !.status = 200, !.pc = "full_open",
                                    !.headers = [NoHeaders EXCEPT
                                        !.content_length = <<entry.file_size>>,
                                        !.etag = entry.etag,
                                        !.last_modified =
                                            Strftime(FromIsoFormat(entry.last_modified))]],
                   cache |-> cache2]

\* GET /api/videos?filename=..&subfolder=.. with the three headers: the
\* handler runs to its return (it never awaits)
GetVideo(filename, subfolder, if_none_match, if_modified_since, range_header) ==
    /\ req.pc \in {"idle", "done"}
    /\ LET h == Handle(filename, subfolder, if_none_match, if_modified_since,
                       range_header, metaCache, fs, now)
           k == MetaKey(filename, subfolder)
       IN  /\ req' = h.r
           /\ metaCache' = h.cache
           /\ hist' = IF ~hist.on THEN hist
                      ELSE [hist EXCEPT
                               !.metaUse = Noted(@, k, Live(metaCache, k, now) \/ h.r.resolved,
                                                 h.cache),
                               !.metaPut = Noted(@, k, h.r.resolved, h.cache),
                               !.metaBy = NotedBy(@, k, filename, subfolder, h.r.resolved,
                                                  h.cache)]
    /\ UNCHANGED <<now, fs, chunkCache, prev, writes>>

----------------------------------------------------------------------------
(* The byte producers: file_sender_range and file_sender *)

\* cache_key = f"{video_path.name}-{start}-{end}"
ChunkKey(video_path, start, end) ==
    Last(video_path) \o <<"-">> \o Dec(start) \o <<"-">> \o Dec(end)

\* what a handle reads: the file's content now, or, once the file was
\* unlinked, the content it had then
HandleContent(fh, fsys) == IF fh.orphan THEN fh.snap ELSE fsys[fh.loc].content

\* (variant: the read starts at the beginning of the file, wherever the handle is)
ReadAtStart(content, pos, n) == SubSeq(content, 1, Min(Len(content), n))

\* (variant: the read stops one byte short of the end of the file)
ReadAtShort(content, pos, n) == SubSeq(content, pos + 1, Min(Len(content) - 1, pos + n))

\* file.read(n) at offset pos
ReadAt(content, pos, n) == SubSeq(content, pos + 1, Min(Len(content), pos + n))

\* aiofiles.open(video_path, "rb")
OpenHandle(video_path) == [open |-> TRUE, loc |-> RealPath(video_path), orphan |-> FALSE, snap |-> <<>>]

\* (variant: the size test reversed)
AdmittedReversed(full_chunk) == Len(full_chunk) >= CHUNK_LIMIT

\* if len(full_chunk) < 1024 * 1024: the blob goes into CHUNK_CACHE
Admitted(full_chunk) == Len(full_chunk) < CHUNK_LIMIT

\* lines 182-185: join, store, yield; the handle is released: [r, cache]
RangeFinish(r, chunks, cache, t) ==
    LET full_chunk == Flatten(chunks)
        cache_key == ChunkKey(r.video_path, r.start, r.end)
    IN  [r |-> [r EXCEPT !.pc = "done", !.chunks = chunks, !.body = <<full_chunk>>,
                         !.fh = NoHandle, !.blob_at = t],
         cache |-> IF Admitted(full_chunk)
                   THEN CacheSet(cache, cache_key, full_chunk, t, CHUNK_TTL, CHUNK_MAXSIZE)
                   ELSE cache]

\* lines 165-172: the chunk cache lookup; a truthy value is yielded and the
\* producer returns, otherwise the file is opened and positioned at start
RangeBegin ==
    /\ req.pc = "range_begin"
    /\ LET cache_key == ChunkKey(req.video_path, req.start, req.end)
           live == CacheHas(chunkCache, cache_key, now)
           cached == IF live THEN CacheValue(chunkCache, cache_key) ELSE <<>>
       IN  /\ chunkCache' = CacheAfterGet(chunkCache, cache_key, now)
           /\ req' = IF cached # <<>>
                     THEN [req EXCEPT !.pc = "done", !.body = <<cached>>, !.hit = TRUE,
                                      !.begun = now,
                                      !.blob_at =
                                          chunkCache[CacheIndex(chunkCache, cache_key)].expires
                                          - CHUNK_TTL]
                     ELSE IF IsFile(fs, req.video_path)
                     THEN [req EXCEPT !.pc = "range_read", !.fh = OpenHandle(req.video_path),
                                      !.opens = @ + 1, !.begun = now]
                     ELSE [req EXCEPT !.pc = "done", !.failed = TRUE, !.begun = now]
           /\ hist' = IF ~hist.on THEN hist
                      ELSE [hist EXCEPT
                               !.chunkUse = Noted(@, cache_key, Live(chunkCache, cache_key, now),
                                                  chunkCache'),
                               !.chunkPut = Noted(@, cache_key, FALSE, chunkCache')]
    /\ UNCHANGED <<now, fs, metaCache, prev, writes>>

\* lines 174-185: one pass of the read loop; when the loop ends the blob is
\* joined, stored and yielded in the same step
RangeRead ==
    /\ req.pc = "range_read"
    /\ LET chunk_size == Min(READ_SIZE, req.end - req.pos + 1)
           chunk == ReadAt(HandleContent(req.fh, fs), req.pos, chunk_size)
           chunks == Append(req.chunks, chunk)
           read == [req EXCEPT !.reads = @ + 1]
           fin == IF req.pos > req.end THEN RangeFinish(req, req.chunks, chunkCache, now)
                  ELSE IF chunk = <<>> THEN RangeFinish(read, req.chunks, chunkCache, now)
                  ELSE IF req.pos + Len(chunk) <= req.end
                  THEN [r |-> [read EXCEPT !.chunks = chunks, !.pos = @ + Len(chunk)],
                        cache |-> chunkCache]
                  ELSE RangeFinish([read EXCEPT !.pos = @ + Len(chunk)], chunks, chunkCache, now)
           cache_key == ChunkKey(req.video_path, req.start, req.end)
           stored == fin.r.pc = "done" /\ Len(Flatten(fin.r.chunks)) < CHUNK_LIMIT
       IN  /\ req' = fin.r
           /\ chunkCache' = fin.cache
           /\ hist' = IF ~hist.on THEN hist
                      ELSE [hist EXCEPT !.chunkUse = Noted(@, cache_key, stored, fin.cache),
                                        !.chunkPut = Noted(@, cache_key, stored, fin.cache)]
    /\ UNCHANGED <<now, fs, metaCache, prev, writes>>

\* line 155: file_sender opens the file
FullOpen ==
    /\ req.pc = "full_open"
    /\ req' = IF IsFile(fs, req.video_path)
              THEN [req EXCEPT !.pc = "full_read", !.fh = OpenHandle(req.video_path),
                               !.opens = @ + 1]
              ELSE [req EXCEPT !.pc = "done", !.failed = TRUE]
    /\ UNCHANGED <<now, fs, metaCache, chunkCache, prev, writes, hist>>

\* lines 156-160: one read of at most 65536 bytes; an empty read ends the producer
FullRead ==
    /\ req.pc = "full_read"
    /\ LET chunk == ReadAt(HandleContent(req.fh, fs), req.pos, READ_SIZE)
       IN  req' = IF chunk = <<>>
                  THEN [req EXCEPT !.pc = "done", !.fh = NoHandle, !.reads = @ + 1]
                  ELSE [req EXCEPT !.body = Append(@, chunk), !.pos = @ + Len(chunk),
                                   !.reads = @ + 1]
    /\ UNCHANGED <<now, fs, metaCache, chunkCache, prev, writes, hist>>

\* (variant: the producer stops and keeps its handle)
ReleasedOpen(r) == [r EXCEPT !.pc = "done", !.aborted = TRUE]

\* the producer is closed where it is suspended: the exception raised there
\* leaves the async with block, which closes the file (lines 155, 171); no
\* statement after the block's body runs
Released(r) == [r EXCEPT !.pc = "done", !.fh = NoHandle, !.aborted = TRUE]

\* the consumer disconnects while the body is being produced: the producer is
\* closed before it starts or at the await or yield where it is suspended
Disconnect ==
    /\ req.pc \in {"range_begin", "range_read", "full_open", "full_read"}
    /\ req' = Released(req)
    /\ UNCHANGED <<now, fs, metaCache, chunkCache, prev, writes, hist>>

\* the event loop: the running task is suspended where it awaits (or has
\* returned) and the other task runs; the handler and each step of a producer
\* up to its next await are not interrupted
Switch ==
    /\ prev # req
    /\ req' = prev
    /\ prev' = req
    /\ UNCHANGED <<now, fs, metaCache, chunkCache, writes, hist>>

----------------------------------------------------------------------------
(* The environment: time passes, files are written and deleted *)

\* the clock advances by step seconds
Tick(step) ==
    /\ now + step <= MaxTicks * step
    /\ now' = now + step
    /\ UNCHANGED <<fs, metaCache, chunkCache, req, prev, writes, hist>>

\* the request record after the file at loc changed
Touch(r, loc) ==
    IF r.resolved /\ RealPath(r.video_path) = loc THEN [r EXCEPT !.touched = TRUE] ELSE r

\* the file at loc is created or rewritten in place; its mtime is the time of the write
WriteFile(loc, content, us) ==
    /\ writes < MaxWrites
    /\ writes' = writes + 1
    /\ fs' = [fs EXCEPT ![loc] = File(content, now, us)]
    /\ req' = Touch(req, loc)
    /\ prev' = Touch(prev, loc)
    /\ UNCHANGED <<now, metaCache, chunkCache, hist>>

\* the file at loc is unlinked; a handle that is open on it keeps its content
DeleteFile(loc) ==
    /\ writes < MaxWrites
    /\ fs[loc].exists
    /\ writes' = writes + 1
    /\ fs' = [fs EXCEPT ![loc] = NoFile]
    /\ req' = LET r == Touch(req, loc)
              IN  IF r.fh.open /\ r.fh.loc = loc /\ ~r.fh.orphan
                  THEN [r EXCEPT !.fh.orphan = TRUE, !.fh.snap = fs[loc].content]
                  ELSE r
    /\ prev' = LET r == Touch(prev, loc)
               IN  IF r.fh.open /\ r.fh.loc = loc /\ ~r.fh.orphan
                   THEN [r EXCEPT !.fh.orphan = TRUE, !.fh.snap = fs[loc].content]
                   ELSE r
    /\ UNCHANGED <<now, metaCache, chunkCache, hist>>

\* history: the completed 206 response is set aside for comparison with a
\* later one; the next request starts from a blank record
Remember ==
    /\ req.pc = "done"
    /\ req.status = 206
    /\ prev' = req
    /\ req' = Idle
    /\ UNCHANGED <<now, fs, metaCache, chunkCache, writes, hist>>

----------------------------------------------------------------------------
(* Initial state and the requests and file changes each specification draws from *)

Init ==
    /\ now = 0
    /\ fs = [loc \in FileLocs |->
                IF loc = FileA THEN File(<<1, 2>>, 0, 0)
                ELSE IF loc = FileD THEN File(<<3, 4>>, 0, 0)
                ELSE IF loc = FileH THEN File(<<5>>, 0, 0)
                ELSE File(<<6, 7>>, 0, 0)]
    /\ metaCache = <<>>
    /\ chunkCache = <<>>
    /\ req = Idle
    /\ prev = Idle
    /\ writes = 0
    /\ hist = NoHist

\* "bytes=s-e", "bytes=s-", "bytes=-n", "bytes=0-0,1-1", "bytes=x-1"
Range(s, e) == <<"bytes=">> \o Dec(s) \o <<"-">> \o Dec(e)
RangeFrom(s) == <<"bytes=">> \o Dec(s) \o <<"-">>
RangeSuffix(n) == <<"bytes=", "-">> \o Dec(n)
RangeMulti == <<"bytes=", "0", "-", "0", ",", "1", "-", "1">>
RangeWord == <<"bytes=", "x", "-", "1">>

\* the validators a client may send for a key: none, one the server never
\* computed, the one stored under the key (expired or not), the file's current one
ClientTags(filename, subfolder) ==
    LET i == CacheIndex(metaCache, MetaKey(filename, subfolder))
        p == VideoPath(filename, subfolder)
    IN  {NoHeader, OtherTag}
        \cup (IF i = 0 THEN {} ELSE {metaCache[i].value.etag})
        \cup (IF IsFile(fs, p) THEN {StatEntry(fs[RealPath(p)]).etag} ELSE {})

(* Path resolution: names with and without separators, subfolders that are
   absent, empty, plain, "..", absolute, and one whose key collides *)
PathNames == { <<"a">>, <<"b">>, <<"a", "\\">>, <<"d", "/", "a">>, <<"a", "-", ".", "/">> }
PathSubfolders == { Absent, Some(<<>>), Some(DotDot), Some(<<"/">>), Some(<<".", "/", "-">>) }

NextPath ==
    \/ \E filename \in PathNames, subfolder \in PathSubfolders :
          \E if_none_match \in ClientTags(filename, subfolder) \ {OtherTag} :
             GetVideo(filename, subfolder, if_none_match, NoHeader, <<>>)
    \/ FullOpen
    \/ FullRead
    \/ DeleteFile(FileH)

SpecPath == Init /\ [][NextPath]_vars

(* Ranges: the same name in the root and in a subfolder *)
RangeSubfolders == { Absent, Some(<<"d">>) }
RangeHeaders == { Range(1, 1), RangeFrom(1), Range(1, 0), Range(2, 2), RangeSuffix(1) }
RangeContents == { <<1>>, <<>> }

NextRange ==
    \/ \E subfolder \in RangeSubfolders, range_header \in RangeHeaders :
          GetVideo(<<"a">>, subfolder, NoHeader, NoHeader, range_header)
    \/ RangeBegin
    \/ RangeRead
    \/ \E content \in RangeContents : WriteFile(FileA, content, 0)

SpecRange == Init /\ [][NextRange]_vars

(* The same range twice: the chunk cache and its time to live *)
RepeatHeaders == { Range(0, 1), Range(1, 1) }

NextRepeat ==
    \/ \E range_header \in RepeatHeaders :
          GetVideo(<<"a">>, Absent, NoHeader, NoHeader, range_header)
    \/ RangeBegin
    \/ RangeRead
    \/ Tick(CHUNK_TTL \div 2)
    \/ WriteFile(FileA, <<1>>, 0)
    \/ Remember

SpecRepeat == Init /\ [][NextRepeat]_vars

(* Conditional requests on one file *)
CondDates == { NoHeader, BadDate, HttpDate(0), HttpDate(META_TTL \div 2) }

NextCond ==
    \/ \E if_none_match \in ClientTags(<<"a">>, Absent), if_modified_since \in CondDates :
          GetVideo(<<"a">>, Absent, if_none_match, if_modified_since, <<>>)
    \/ FullOpen
    \/ FullRead
    \/ Tick(META_TTL \div 2)
    \/ \E us \in {0, 500000} : WriteFile(FileA, <<8, 9>>, us)
    \/ DeleteFile(FileA)

SpecCond == Init /\ [][NextCond]_vars

(* Capacity: a workload of requests for ever new keys, each with a range it has
   not asked for before while there is one, that looks the first key and the
   first range up again once a cache is full; between requests, once a cache
   is nearly full, time passes and the file may be removed; the history is
   recorded *)

\* the k-th subfolder that leads to VIDEO_DIR itself: k in binary, written
\* with "./" for 0 and ".//" for 1 ("" for k = 0)
RECURSIVE Dots(_)
Dots(k) ==
    IF k = 0 THEN <<>>
    ELSE Dots(k \div 2) \o (IF k % 2 = 0 THEN <<".", "/">> ELSE <<".", "/", "/">>)

FillKey(k) == MetaKey(<<"a">>, Some(Dots(k)))

\* the number of the next key the workload has not used yet
\* (the newest key is still stored)
NextNew ==
    LET stored == {k \in 0..(META_MAXSIZE + Overfill) : CacheIndex(metaCache, FillKey(k)) # 0}
    IN  IF stored = {} THEN 0
        ELSE 1 + CHOOSE k \in stored : \A j \in stored : j <= k

\* the ranges s..e, 0 <= s <= e < FillSize, numbered from 0 row by row
RowStart(s) == s * FillSize - (s * (s - 1)) \div 2

RangeNo(n) ==
    LET s == CHOOSE x \in 0..(FillSize - 1) : RowStart(x) <= n /\ n < RowStart(x + 1)
    IN  Range(s, s + n - RowStart(s))

\* the Range header of the n-th new request: a new range, or none once
\* CHUNK_MAXSIZE + Overfill ranges were asked for
FillRange(n) == IF n < CHUNK_MAXSIZE + Overfill THEN RangeNo(n) ELSE <<>>

InitFill ==
    /\ now = 0
    /\ fs = [loc \in FileLocs |->
                IF loc = FileA THEN File([i \in 1..FillSize |-> i], 0, 0) ELSE NoFile]
    /\ metaCache = <<>>
    /\ chunkCache = <<>>
    /\ req = Idle
    /\ prev = Idle
    /\ writes = 0
    /\ hist = [NoHist EXCEPT !.on = TRUE]

\* the workload is still asking for new ranges
Ranging == NextNew < CHUNK_MAXSIZE + Overfill

NextFill ==
    \/ \E n \in {NextNew} :
          /\ n < META_MAXSIZE + Overfill
          /\ GetVideo(<<"a">>, Some(Dots(n)), NoHeader, NoHeader, FillRange(n))
    \/ /\ Len(metaCache) = META_MAXSIZE
       /\ \E if_none_match \in ClientTags(<<"a">>, Some(Dots(0))) \ {NoHeader, OtherTag} :
             GetVideo(<<"a">>, Some(Dots(0)), if_none_match, NoHeader, <<>>)
    \/ /\ Len(chunkCache) = CHUNK_MAXSIZE /\ Ranging
       /\ GetVideo(<<"a">>, Some(Dots(0)), NoHeader, NoHeader, FillRange(0))
    \/ RangeBegin
    \/ RangeRead
    \/ FullOpen
    \/ FullRead
    \/ /\ req.pc = "done"
       /\ \/ Len(metaCache) >= META_MAXSIZE - 1
          \/ Len(chunkCache) >= CHUNK_MAXSIZE - 1 /\ Ranging
       /\ Tick(META_TTL \div 2)
    \/ /\ req.pc = "done"
       /\ Len(metaCache) = META_MAXSIZE
       /\ DeleteFile(FileA)

SpecFill == InitFill /\ [][NextFill]_vars

(* The producers: one file, fetched whole, as a range that covers it, from its
   last byte on and as a range whose end lies before its start; the consumer
   may go away at any point; the file may grow by a byte or be rewritten with
   a single byte while it is read *)
SendRanges == { <<>>, Range(0, 2), RangeFrom(2), Range(2, 0) }
SendContents == { <<1, 2, 3, 4>>, <<1>> }

InitSend ==
    /\ now = 0
    /\ fs = [loc \in FileLocs |-> IF loc = FileA THEN File(<<1, 2, 3>>, 0, 0) ELSE NoFile]
    /\ metaCache = <<>>
    /\ chunkCache = <<>>
    /\ req = Idle
    /\ prev = Idle
    /\ writes = 0
    /\ hist = NoHist

NextSend ==
    \/ \E range_header \in SendRanges :
          GetVideo(<<"a">>, Absent, NoHeader, NoHeader, range_header)
    \/ RangeBegin
    \/ RangeRead
    \/ FullOpen
    \/ FullRead
    \/ Disconnect
    \/ \E content \in SendContents : WriteFile(FileA, content, 0)

SpecSend == InitSend /\ [][NextSend]_vars

\* the transport keeps consuming the body: a producer that can take a step
\* eventually takes one
SpecSendFair ==
    /\ InitSend /\ [][NextSend]_vars
    /\ WF_vars(RangeBegin) /\ WF_vars(RangeRead) /\ WF_vars(FullOpen) /\ WF_vars(FullRead)

(* Two tasks: range requests for one file that the event loop interleaves,
   and a rewrite of the file with content of the same length *)
RaceHeaders == { Range(0, 1), Range(1, 1) }

NextRace ==
    \/ \E range_header \in RaceHeaders :
          GetVideo(<<"a">>, Absent, NoHeader, NoHeader, range_header)
    \/ RangeBegin
    \/ RangeRead
    \/ Switch
    \/ WriteFile(FileA, <<8, 9>>, 500000)

SpecRace == Init /\ [][NextRace]_vars

(* Keys: names and subfolders whose cache keys coincide, requests that end in
   400, 404, 416 and in a Range header that does not parse; the history of
   the keys is recorded *)
KeyNames == { <<"a">>, <<"a", "-">> }
KeySubfolders == { Some(<<>>), Some(<<"-">>), Some(<<"/">>) }
KeyRanges == { Range(0, 0), Range(2, 2), RangeSuffix(1) }

InitKey ==
    /\ now = 0
    /\ fs = [loc \in FileLocs |->
                IF loc = FileA THEN File(<<1, 2>>, 0, 0)
                ELSE IF loc = FileD THEN File(<<3, 4>>, 0, 0)
                ELSE IF loc = FileH THEN File(<<5>>, 0, 0)
                ELSE File(<<6, 7>>, 0, 0)]
    /\ metaCache = <<>>
    /\ chunkCache = <<>>
    /\ req = Idle
    /\ prev = Idle
    /\ writes = 0
    /\ hist = [NoHist EXCEPT !.on = TRUE]

NextKey ==
    \/ \E filename \in KeyNames, subfolder \in KeySubfolders :
          \E if_none_match \in ClientTags(filename, subfolder) \ {OtherTag} :
             GetVideo(filename, subfolder, if_none_match, NoHeader, <<>>)
    \/ \E subfolder \in KeySubfolders, range_header \in KeyRanges :
          GetVideo(<<"a">>, subfolder, NoHeader, NoHeader, range_header)
    \/ RangeBegin
    \/ RangeRead
    \/ FullOpen
    \/ FullRead
    \/ DeleteFile(FileH)

SpecKey == InitKey /\ [][NextKey]_vars

----------------------------------------------------------------------------
(* The claims *)

\* the request asks for bytes s..e of a file of size n: "bytes=s-e", or "bytes=s-" with e = n - 1
AsksFor(range_header, s, e, n) ==
    \/ e >= 0 /\ range_header = Range(s, e)
    \/ range_header = RangeFrom(s) /\ e = n - 1

\* the file the request's path leads to, as it is now
Target == fs[RealPath(req.video_path)]

\* the lexical normalisation of a path: ".." removes the component before it
RECURSIVE Normal(_, _)
Normal(done, rest) ==
    IF rest = <<>> THEN done
    ELSE IF Head(rest) = DotDot
         THEN Normal(IF done = <<>> THEN done ELSE Front(done), Tail(rest))
         ELSE Normal(Append(done, Head(rest)), Tail(rest))

\* the joined path of the request normalizes to a place that is not below VIDEO_DIR
Escapes(filename, subfolder) ==
    LET loc == Normal(<<>>, VideoPath(filename, subfolder))
    IN  ~(Len(loc) >= Len(VIDEO_DIR) /\ SubSeq(loc, 1, Len(VIDEO_DIR)) = VIDEO_DIR)

\* C1 (as claimed): a request that passed path resolution (answered 200, 206
\* or 416) has a resolved path that is, once normalized, below VIDEO_DIR.
C1_Containment ==
    req.status \in {200, 206, 416} => Inside(RealPath(req.video_path), VIDEO_DIR)

\* C2 (as claimed): a request whose filename contains "/" or "\" is answered
\* 400, whatever the subfolder, the headers and the state of the metadata cache.
C2_SeparatorIs400 ==
    (req.pc # "idle" /\ \E i \in 1..Len(req.filename) : req.filename[i] \in {"/", "\\"})
        => req.status = 400

\* C3 (as claimed): a request whose joined path resolves outside the root is
\* answered 400, whether or not a file exists there.
C3_OutsideIs400 ==
    (req.pc # "idle" /\ Escapes(req.filename, req.subfolder)) => req.status = 400

\* C4 (as claimed): a request with a separator-free filename whose joined path
\* is not a regular file at the time of the request is answered 404, in every
\* cache state and with every combination of conditional headers.
C4_MissingIs404 ==
    (req.pc # "idle" /\ ValidFilename(req.filename) /\ ~req.was_file) => req.status = 404

\* the stored metadata entry under the request's key was live when the request arrived
WasWarm == req.old # NoEntry /\ req.at < req.old.expires

\* a live entry answers the request by itself: If-None-Match equals its etag, or
\* If-Modified-Since is present and is unparsable or not earlier than its last_modified
ShortCircuited ==
    /\ WasWarm
    /\ \/ req.if_none_match # NoHeader /\ req.if_none_match = req.old.value.etag
       \/ /\ req.if_modified_since # NoHeader
          /\ \/ req.if_modified_since = BadDate
             \/ req.if_modified_since[2] > req.old.value.last_modified[2]
             \/ /\ req.if_modified_since[2] = req.old.value.last_modified[2]
                /\ req.old.value.last_modified[3] = 0

\* C4 (amended): such a request is answered 404 unless a live metadata entry
\* under its key answers it first, and then it is answered 304 or fails (500).
C4_MissingIs404UnlessWarm ==
    (req.pc # "idle" /\ ValidFilename(req.filename) /\ ~req.was_file)
        => IF ShortCircuited THEN req.status \in {304, 500} ELSE req.status = 404

\* C4 witness: a file that was served, then deleted, is asked for again without
\* validators while its metadata entry is live, and the answer is 404.
C4_Witness ==
    /\ req.status = 404 /\ WasWarm /\ ~req.was_file
    /\ req.if_none_match = NoHeader /\ req.if_modified_since = NoHeader

\* C5 (as claimed): for a file of size n and a header asking for bytes s..e,
\* 0 <= s <= e < n, a request not answered 304 is answered 206 with
\* Content-Range s-e/n, Content-Length e-s+1 and exactly bytes s..e of the file
\* at the resolved path (the file not changing while the request is served).
C5_RangeCorrect ==
    \A s \in 0..9, e \in 0..9 :
        (/\ req.pc = "done" /\ req.resolved /\ ~req.touched /\ ~req.failed
         /\ req.status # 304
         /\ s <= e /\ e < Len(Target.content)
         /\ AsksFor(req.range_header, s, e, Len(Target.content)))
        => /\ req.status = 206
           /\ req.headers.content_range = <<s, e, Len(Target.content)>>
           /\ req.headers.content_length = <<e - s + 1>>
           /\ Flatten(req.body) = SubSeq(Target.content, s + 1, e + 1)

\* C6: for a resolvable file of size n a parsed range s..e is answered 416 iff
\* s >= n or e >= n, and 206 otherwise; "bytes=(n-1)-(n-1)" with n >= 1 is
\* answered 206 with a one-byte body (the file not changing while it is served),
\* "bytes=n-n" is answered 416, and every range on an empty file is answered 416.
C6_RangeBoundary ==
    \A s \in 0..9, e \in -1..9 :
        (req.pc # "idle" /\ req.resolved /\ AsksFor(req.range_header, s, e, req.file_size))
        => /\ ~req.touched => req.file_size = Len(Target.content)
           /\ req.status = 416 <=> (s >= req.file_size \/ e >= req.file_size)
           /\ req.status \in {416, 206}
           /\ req.file_size = 0 => req.status = 416
           /\ (s = req.file_size /\ e = req.file_size) => req.status = 416
           /\ (s = req.file_size - 1 /\ e = s /\ req.range_header = Range(s, e))
                => /\ req.status = 206
                   /\ (req.pc = "done" /\ ~req.touched /\ ~req.failed)
                        => Len(Flatten(req.body)) = 1

\* C6 witness: the last byte of a two-byte file was asked for and delivered.
C6_Witness ==
    /\ req.pc = "done" /\ req.status = 206 /\ req.file_size = 2
    /\ req.range_header = Range(1, 1) /\ ~req.touched /\ Len(Flatten(req.body)) = 1

\* C7 (as claimed): every range handed to file_sender_range and answered 206
\* satisfies 0 <= start <= end < file_size.
C7_RangeInvariant ==
    req.status = 206 => (0 <= req.start /\ req.start <= req.end /\ req.end < req.file_size)

\* two answered range requests for the same file and the same range, the
\* earlier one having delivered the whole range
SameRangeTwice ==
    /\ prev.pc = "done" /\ prev.status = 206
    /\ req.pc = "done" /\ req.status = 206
    /\ req.filename = prev.filename /\ req.subfolder = prev.subfolder
    /\ req.range_header = prev.range_header
    /\ req.start = prev.start /\ req.end = prev.end
    /\ prev.start <= prev.end
    /\ Len(Flatten(prev.body)) = prev.end - prev.start + 1
    /\ Len(Flatten(prev.body)) < CHUNK_LIMIT

\* C8: of two identical range requests, the second arriving less than 60 s
\* after the bytes the first returned were read, the second returns the same
\* bytes and is served from CHUNK_CACHE without opening or reading the file.
C8_ChunkCacheTransparent ==
    (SameRangeTwice /\ prev.blob_at <= req.begun /\ req.begun < prev.blob_at + CHUNK_TTL)
        => /\ Flatten(req.body) = Flatten(prev.body)
           /\ req.hit /\ req.opens = 0 /\ req.reads = 0

\* C8 witness: the second request came later than the first, inside the window,
\* after the file had changed, and was served from the cache.
C8_Witness ==
    /\ SameRangeTwice /\ req.begun < prev.blob_at + CHUNK_TTL /\ req.begun > prev.blob_at
    /\ req.at > prev.at /\ ~prev.hit /\ req.hit /\ prev.touched
    /\ Flatten(req.body) = Flatten(prev.body)

\* the ETag the request carries was recorded for its key: the metadata store
\* still holds it there (expired or not)
CarriesRecordedTag ==
    /\ req.pc # "idle" /\ req.if_none_match # NoHeader
    /\ req.old # NoEntry /\ req.old.value.etag = req.if_none_match

\* the file the request names is on disk with the validators the request carries
FileStillMatches ==
    LET loc == RealPath(VideoPath(req.filename, req.subfolder))
    IN  /\ req.was_file /\ loc \in DOMAIN fs /\ fs[loc].exists
        /\ req.if_none_match =
               <<"md5", Len(fs[loc].content), fs[loc].mtime.sec, fs[loc].mtime.us>>

\* C9 (as claimed): once a file was served and its ETag E recorded, every later
\* request for the same key with If-None-Match: E is answered 304, empty body
\* (stated here for a file that has not changed since).
C9_AlwaysNotModified ==
    (CarriesRecordedTag /\ FileStillMatches) => (req.status = 304 /\ req.body = <<>>)

\* C9 (amended): ... is answered 304 with an empty body as long as the entry
\* that recorded E is live, i.e. less than 300 s after it was written; the 304
\* leaves the entry and its expiry as they were.
C9_NotModifiedWhileLive ==
    (CarriesRecordedTag /\ WasWarm)
        => /\ req.status = 304 /\ req.body = <<>> /\ req.pc = "done"
           /\ \E i \in 1..Len(metaCache) : metaCache[i] = req.old

\* C9 witness: a 304 for the recorded tag at a later time than the entry was written.
C9_Witness ==
    /\ CarriesRecordedTag /\ WasWarm /\ req.status = 304
    /\ req.at > req.old.expires - META_TTL

\* the validators of the file as it is on disk
CurrentTag == <<"md5", Len(Target.content), Target.mtime.sec, Target.mtime.us>>

\* C10: no 304 rests on a metadata entry written 300 s or more before; a
\* request for an existing file that finds its entry expired stats the file,
\* computes the ETag from the current size and mtime, answers with it and
\* stores it, also when its validators match the expired entry.
C10_MetadataExpiry ==
    /\ req.status = 304 => (req.old # NoEntry /\ req.at - (req.old.expires - META_TTL) < META_TTL)
    /\ (req.pc # "idle" /\ req.old # NoEntry /\ req.at >= req.old.expires /\ req.was_file)
        => /\ req.status = 200
           /\ req.resolved
           /\ ~req.touched => (req.etag = CurrentTag /\ req.headers.etag = CurrentTag)
           /\ \E i \in 1..Len(metaCache) :
                /\ metaCache[i].key = req.old.key
                /\ metaCache[i].value.etag = req.etag
                /\ metaCache[i].expires = req.at + META_TTL

\* C10 witness: the request carried the ETag of the expired entry, the file had
\* been modified meanwhile, and the answer is 200 with the new ETag.
C10_Witness ==
    /\ req.status = 200 /\ req.old # NoEntry /\ req.at >= req.old.expires
    /\ req.if_none_match = req.old.value.etag
    /\ req.headers.etag # req.old.value.etag /\ ~req.touched /\ req.headers.etag = CurrentTag

\* a request without a Range header for a file that is there, with a filename
\* free of separators, has been answered and streamed to its end, and the file
\* did not change after it was stat-ed
FullFetchDone ==
    /\ req.pc = "done" /\ req.range_header = <<>>
    /\ ValidFilename(req.filename) /\ req.was_file /\ ~req.touched

\* what C11 promises of the answer: 200, Content-Length N, the whole file, and
\* the ETag header equal to the digest of size and mtime that the metadata
\* cache now holds under the request's key
FullFetchAnswer ==
    /\ req.status = 200 /\ ~req.failed
    /\ req.headers.content_length = <<Len(Target.content)>>
    /\ Flatten(req.body) = Target.content
    /\ req.headers.etag = CurrentTag
    /\ LET i == CacheIndex(metaCache, MetaKey(req.filename, req.subfolder))
       IN  i # 0 /\ metaCache[i].value.etag = req.headers.etag

\* C11 (as claimed): a request without a Range header for a resolvable file of
\* size N that is not answered 304 returns 200 with Content-Length N, the whole
\* file as body and the ETag that the metadata cache stores for its key.
C11_FullFetch ==
    (FullFetchDone /\ req.status # 304) => FullFetchAnswer

\* C11 (amended): ... that is not answered 304 and does not carry an unparsable
\* If-Modified-Since against a live metadata entry (which fails it, C13)
\* returns 200 with Content-Length N, the whole file and the stored ETag.
C11_FullFetchUnlessParseError ==
    (FullFetchDone /\ req.status # 304 /\ ~(WasWarm /\ req.if_modified_since = BadDate))
        => FullFetchAnswer

\* C11 witness: a rewritten file is fetched in full over a live entry of its
\* earlier version, with validators that do not match.
C11_Witness ==
    /\ FullFetchDone /\ FullFetchAnswer /\ WasWarm
    /\ req.if_none_match # NoHeader /\ req.if_modified_since # NoHeader
    /\ req.old.value.etag # req.headers.etag /\ Len(req.body) = 1

\* the request's If-None-Match equals the etag of the entry stored under its key
TagMatches == req.if_none_match # NoHeader /\ req.if_none_match = req.old.value.etag

\* the request's If-Modified-Since is well-formed and not earlier than the
\* last-modified time of the entry stored under its key
DateMatches ==
    /\ req.if_modified_since # NoHeader /\ req.if_modified_since # BadDate
    /\ \/ req.if_modified_since[2] > req.old.value.last_modified[2]
       \/ /\ req.if_modified_since[2] = req.old.value.last_modified[2]
          /\ req.old.value.last_modified[3] = 0

\* C12: a request is answered 304 iff a live metadata entry exists for its key
\* and either If-None-Match equals the stored etag or If-Modified-Since parses
\* and is >= the stored last-modified (also next to a non-matching
\* If-None-Match); without a live entry the conditional headers are ignored
\* and a request for a file that is there is served (200; no request of this
\* specification carries a Range header).
C12_ConditionalDecision ==
    req.pc # "idle" =>
        /\ req.status = 304 <=> (WasWarm /\ (TagMatches \/ DateMatches))
        /\ (~WasWarm /\ req.was_file /\ ValidFilename(req.filename))
              => (req.status = 200 /\ req.resolved)

\* C12 witness: a 304 on the date alone, next to an If-None-Match that does not
\* match, some time after the entry was written.
C12_Witness ==
    /\ req.status = 304 /\ WasWarm /\ DateMatches
    /\ req.if_none_match = OtherTag /\ req.at > 0

\* C13 (as claimed): a request whose If-Modified-Since does not conform to
\* "%a, %d %b %Y %H:%M:%S GMT" never ends in 200 or 206.
C13_BadDateNeverServed ==
    (req.pc # "idle" /\ req.if_modified_since = BadDate) => req.status \notin {200, 206}

\* C13 (amended): such a request fails (500, nothing served) when a live
\* metadata entry exists for its key and its If-None-Match does not equal the
\* entry's etag; with a matching If-None-Match it is answered 304, and without
\* a live entry the value is never parsed: a file that is there is served.
C13_BadDateFailsWhenWarm ==
    (req.pc # "idle" /\ req.if_modified_since = BadDate) =>
        /\ (WasWarm /\ ~TagMatches)
              => (req.status = 500 /\ req.pc = "done" /\ req.body = <<>> /\ ~req.resolved)
        /\ (WasWarm /\ TagMatches) => req.status = 304
        /\ (~WasWarm /\ req.was_file /\ ValidFilename(req.filename)) => req.status = 200

\* C13 witness: the malformed date failed a request for a file that is there,
\* next to an If-None-Match naming the file's current digest.
C13_Witness ==
    /\ req.status = 500 /\ req.if_modified_since = BadDate /\ WasWarm /\ req.was_file
    /\ req.if_none_match # NoHeader /\ req.if_none_match # OtherTag

\* C14 (as claimed): an I/O error raised while the body of a 200 or 206
\* response is produced (here: the file can no longer be opened when the
\* producer starts) results in the request being answered with status 500.
C14_StreamFailureIs500 ==
    req.failed => req.status = 500

\* C15 (as claimed): every 200 or 206 response that completes without error
\* delivers as many body bytes as its Content-Length declares, also when the
\* file changes between the stat and the reads and when the 206 body comes
\* from the chunk cache.
C15_NoPartialSuccess ==
    (req.pc = "done" /\ req.status \in {200, 206} /\ ~req.failed)
        => Len(Flatten(req.body)) = req.headers.content_length[1]

\* the metadata entry stored under the key of the request
StoredNow ==
    LET i == CacheIndex(metaCache, MetaKey(req.filename, req.subfolder))
    IN  IF i = 0 THEN NoEntry ELSE metaCache[i]

\* C17: a request that passed path resolution and was not answered 304 (it was
\* answered 200, 206 or 416) leaves under its key an entry with the size, the
\* mtime and the etag of the file as it stat-ed it, due 300 s after the
\* request, also when a live entry was there before.
C17_MetadataOverwritten ==
    (req.pc # "idle" /\ req.status \in {200, 206, 416}) =>
        /\ req.resolved
        /\ StoredNow.value = [etag |-> req.etag, last_modified |-> req.last_modified,
                              file_size |-> req.file_size]
        /\ StoredNow.expires = req.at + META_TTL
        /\ ~req.touched =>
              /\ req.file_size = Len(Target.content)
              /\ req.last_modified = <<"iso", Target.mtime.sec, Target.mtime.us>>
              /\ req.etag = CurrentTag

\* C17 witness: a range request that is not satisfiable (416) on a rewritten
\* file replaced a live entry of the file's earlier version, some time later.
C17_Witness ==
    /\ req.status = 416 /\ WasWarm /\ req.at > req.old.expires - META_TTL
    /\ req.old.value # StoredNow.value /\ ~req.touched
    /\ StoredNow.expires > req.old.expires

\* C18 (as claimed): when the metadata cache holds an unexpired entry for the
\* request's key, the size, etag and last-modified used for the response are
\* those of the stored entry and the file is not stat-ed.
C18_StoredMetadataUsed ==
    (req.pc # "idle" /\ WasWarm) =>
        /\ ~req.resolved
        /\ req.status = 200 =>
              /\ req.headers.etag = req.old.value.etag
              /\ req.headers.content_length = <<req.old.value.file_size>>

\* C18 (amended): the stored entry is what the conditional headers are compared
\* with, and it is looked at iff it is unexpired; the file is not stat-ed when
\* that comparison answers (304) or fails the request, and otherwise the file
\* is stat-ed again and the response carries the fresh size and etag.
C18_StoredMetadataForValidators ==
    req.pc # "idle" =>
        /\ req.meta = (IF WasWarm THEN req.old.value ELSE NoMeta)
        /\ (WasWarm /\ (TagMatches \/ DateMatches \/ req.if_modified_since = BadDate))
              => (req.status \in {304, 500} /\ ~req.resolved /\ req.opens = 0)
        /\ (WasWarm /\ req.status = 200) =>
              /\ req.resolved
              /\ ~req.touched =>
                    /\ req.headers.etag = CurrentTag
                    /\ req.headers.content_length = <<Len(Target.content)>>

\* C18 witness: over a live entry of the file's earlier version the response
\* carries the etag of the file as it is now.
C18_Witness ==
    /\ WasWarm /\ req.status = 200 /\ ~req.touched
    /\ req.headers.etag = CurrentTag /\ req.headers.etag # req.old.value.etag

\* C19 (as claimed): every value in CHUNK_CACHE is shorter than 1 MiB and is
\* the complete range its key names: end - start + 1 bytes.
C19_ChunkAdmission ==
    \A i \in 1..Len(chunkCache) :
        /\ Len(chunkCache[i].value) < CHUNK_LIMIT
        /\ \A s \in 0..9, e \in 0..9 :
              chunkCache[i].key = ChunkKey(<< <<"a">> >>, s, e)
                  => Len(chunkCache[i].value) = e - s + 1

\* a request has just been answered 304
NotModifiedStep == req'.status = 304 /\ req' # req

\* C16 (as claimed): a 304 is returned before validate_filename, before any
\* path join and before any file system access, and leaves VIDEO_META_CACHE and
\* CHUNK_CACHE unchanged.
C16_NotModifiedLeavesCaches ==
    [][NotModifiedStep =>
          /\ ~req'.resolved /\ req'.video_path = <<>> /\ req'.opens = 0 /\ fs' = fs
          /\ metaCache' = metaCache
          /\ chunkCache' = chunkCache]_vars

\* C16 (amended): ... and leaves CHUNK_CACHE and the entries of
\* VIDEO_META_CACHE unchanged (keys, values and expiry times: the time to live
\* is not extended); its only effect is that the entry it matched becomes the
\* most recently used one.
C16_NotModifiedKeepsEntries ==
    [][NotModifiedStep =>
          /\ ~req'.resolved /\ req'.video_path = <<>> /\ req'.opens = 0 /\ fs' = fs
          /\ chunkCache' = chunkCache
          /\ \E i \in 1..Len(metaCache) :
                /\ metaCache[i].key = MetaKey(req'.filename, req'.subfolder)
                /\ req'.at < metaCache[i].expires
                /\ metaCache' = Append(RemoveAt(metaCache, i), metaCache[i])]_vars

\* C16 witness: a 304 for a file that is no longer there, some time after its
\* entry was written into a cache that is full; the entry is now the most
\* recently used one and is due when it was.
C16_Witness ==
    /\ req.status = 304 /\ ~req.was_file /\ req.at > 0
    /\ Len(metaCache) = META_MAXSIZE
    /\ Last(metaCache) = req.old /\ req.old.expires = META_TTL
    /\ req.old.key = FillKey(0)

\* the keys of the live entries of c that c2 no longer stores
Lost(c, c2, t) ==
    {c[i].key : i \in {j \in 1..Len(c) : t < c[j].expires /\ CacheIndex(c2, c[j].key) = 0}}

\* of the keys live in c, the one that comes first in an order
Oldest(order, c, t) == SelectSeq(order, LAMBDA x : Live(c, x, t))[1]

\* c2 holds an entry that c does not: a store happened
StoredInto(c, c2) == \E j \in 1..Len(c2) : \A i \in 1..Len(c) : c[i] # c2[j]

\* a step from cache c to cache c2 at time t keeps the capacity, drops the
\* expired entries on a store, and loses a live entry only when c was full of
\* live entries, and then the first one of the given order
Evicts(order, c, c2, t, maxsize) ==
    /\ Len(c2) <= maxsize
    /\ StoredInto(c, c2) => \A j \in 1..Len(c2) : t < c2[j].expires
    /\ \A k \in Lost(c, c2, t) :
          /\ Cardinality({i \in 1..Len(c) : t < c[i].expires}) = maxsize
          /\ k = Oldest(order, c, t)

\* C20 (as claimed): the metadata cache holds at most 50 entries and the chunk
\* cache at most 25; an insert into a full cache first drops the expired
\* entries and otherwise evicts the entry whose last insertion is oldest,
\* lookups (304, chunk-cache hit) not changing the eviction order.
C20_EvictsOldestInsertion ==
    [][/\ Evicts(hist.metaPut, metaCache, metaCache', now, META_MAXSIZE)
       /\ Evicts(hist.chunkPut, chunkCache, chunkCache', now, CHUNK_MAXSIZE)]_vars

\* C20 (amended): ... and otherwise evicts the least recently used entry, where
\* a lookup that finds the entry live (also one that leads to 304 or to a
\* chunk-cache hit) is a use just as an insertion is.
C20_EvictsLeastRecentlyUsed ==
    [][/\ Evicts(hist.metaUse, metaCache, metaCache', now, META_MAXSIZE)
       /\ Evicts(hist.chunkUse, chunkCache, chunkCache', now, CHUNK_MAXSIZE)]_vars

\* C20 witness: both caches are full of live entries; the first key, inserted
\* before all others and looked up since (304), is still stored while the
\* second key was evicted for the newest one; the first range, never looked up
\* again, was evicted.
C20_Witness ==
    /\ now = 0 /\ Len(metaCache) = META_MAXSIZE /\ Len(chunkCache) = CHUNK_MAXSIZE
    /\ CacheIndex(metaCache, FillKey(0)) # 0 /\ CacheIndex(metaCache, FillKey(1)) = 0
    /\ CacheIndex(metaCache, FillKey(META_MAXSIZE)) # 0
    /\ hist.metaPut[1] = FillKey(0) /\ hist.metaUse[1] # FillKey(0)
    /\ CacheIndex(chunkCache, ChunkKey(<< <<"a">> >>, 0, 0)) = 0

\* the file a byte was written to: the files of the range workload hold
\* different byte values (1, 2 in /v/a; 3, 4 in /v/d/a)
ByteHome(b) == IF b \in {1, 2} THEN FileA ELSE FileD

\* C26 (as claimed): a range request for a file in one subfolder is never
\* answered with bytes that were read from a different file, in particular not
\* from the same-named file in another subfolder or in the root whose same
\* range was cached within the last 60 s.
C26_ChunkIsolation ==
    (req.pc = "done" /\ req.status = 206) =>
        \A i \in 1..Len(req.body) : \A j \in 1..Len(req.body[i]) :
            ByteHome(req.body[i][j]) = RealPath(req.video_path)

\* C28 (as claimed): a 304 answer to a request whose If-None-Match equals the
\* stored etag implies that the file is there at the time of the request with
\* the size and mtime that etag was computed from.
C28_ValidatorFresh ==
    [][(NotModifiedStep /\ req'.if_none_match # NoHeader
                        /\ req'.if_none_match = req'.old.value.etag)
          => LET p == VideoPath(req'.filename, req'.subfolder)
             IN  /\ PresentAt(fs, p)
                 /\ req'.if_none_match =
                        <<"md5", Len(fs[RealPath(p)].content),
                          fs[RealPath(p)].mtime.sec, fs[RealPath(p)].mtime.us>>]_vars

\* the request's If-Modified-Since is the Last-Modified header that a 200
\* response built from the stored entry carries
EchoesLastModified ==
    /\ req.pc # "idle" /\ WasWarm
    /\ req.if_modified_since = <<"date", req.old.value.last_modified[2]>>

\* C29 (as claimed): a request that sends back, as If-Modified-Since, the
\* Last-Modified value of the live entry under its key, the file being there
\* and unchanged (a request that goes on to stat it finds the stored etag again),
\* is answered 304, whatever the sub-second part of the modification time.
C29_LastModifiedRoundTrip ==
    (EchoesLastModified /\ req.was_file /\ (req.resolved => req.etag = req.old.value.etag))
        => req.status = 304

\* a request has just been handled by get_video
RequestStep == req.pc \in {"idle", "done"} /\ req'.pc # "idle" /\ req' # req /\ fs' = fs

\* C25 (as claimed): the metadata entry a request looks up, and overwrites if
\* it goes on to the stat, was written by a request with the same filename
\* and the same subfolder; no entry written for one pair answers (304) a
\* request for another pair.
C25_KeyIsPair ==
    [][RequestStep =>
          \A i \in 1..Len(hist.metaBy) :
              hist.metaBy[i].key = MetaKey(req'.filename, req'.subfolder)
                  => /\ hist.metaBy[i].filename = req'.filename
                     /\ hist.metaBy[i].subfolder = req'.subfolder]_vars

\* the request just handled was answered without a body producer to run
Refused(codes) == RequestStep /\ req'.status \in codes /\ req'.pc = "done"

\* C30 (as claimed): a request answered 400 or 404 modifies neither
\* VIDEO_META_CACHE nor CHUNK_CACHE (a 404 for a deleted file leaves its live
\* entry in place), and a request answered 416 or failing on a Range header
\* that does not parse never writes CHUNK_CACHE: no producer runs for it.
C30_ErrorsLeaveCaches ==
    [][/\ Refused({400, 404}) => (metaCache' = metaCache /\ chunkCache' = chunkCache)
       /\ (RequestStep /\ req'.status \in {416, 500})
             => (req'.pc = "done" /\ chunkCache' = chunkCache)]_vars

\* C30 (amended): a request answered 400 or 404 leaves CHUNK_CACHE and every
\* entry of VIDEO_META_CACHE (key, value, expiry time) as they were; its only
\* effect is that a live entry under its key becomes the most recently used
\* one. A request answered 416 or failing on its Range header never writes
\* CHUNK_CACHE.
C30_ErrorsKeepEntries ==
    [][/\ Refused({400, 404}) =>
             /\ chunkCache' = chunkCache
             /\ LET k == MetaKey(req'.filename, req'.subfolder)
                IN  IF \E i \in 1..Len(metaCache) :
                           metaCache[i].key = k /\ req'.at < metaCache[i].expires
                    THEN \E i \in 1..Len(metaCache) :
                            /\ metaCache[i].key = k
                            /\ metaCache' = Append(RemoveAt(metaCache, i), metaCache[i])
                    ELSE metaCache' = metaCache
       /\ (RequestStep /\ req'.status \in {416, 500})
             => (req'.pc = "done" /\ chunkCache' = chunkCache)]_vars

\* C30 witness: a 404 for a deleted file whose live entry is still stored; the
\* entry was not the one written last, and is now the most recently used one.
C30_Witness ==
    /\ req.status = 404 /\ WasWarm /\ ~req.was_file /\ req.filename = <<"a">>
    /\ Len(metaCache) >= 2 /\ Last(metaCache) = req.old
    /\ Last(hist.metaPut) # req.old.key

\* two range requests for the same range of the same file have both been
\* answered after both missed the chunk cache and both read the file, which
\* did not change since the earlier of them stat-ed it
BothMissed ==
    /\ req.pc = "done" /\ req.status = 206 /\ ~req.hit /\ req.opens = 1 /\ req.reads >= 1
    /\ prev.pc = "done" /\ prev.status = 206 /\ ~prev.hit /\ prev.opens = 1 /\ prev.reads >= 1
    /\ req.video_path = prev.video_path /\ req.start = prev.start /\ req.end = prev.end
    /\ ~req.touched /\ ~prev.touched

\* C23: two requests for the same uncached range that interleave so that both
\* miss the chunk cache both read the same bytes, the bytes the file holds
\* for the range, and the value left under their key is those bytes.
C23_BenignRace ==
    BothMissed =>
        LET bytes == SubSeq(Target.content, req.start + 1, req.end + 1)
            cache_key == ChunkKey(req.video_path, req.start, req.end)
        IN  /\ Flatten(req.body) = bytes
            /\ Flatten(prev.body) = bytes
            /\ CacheIndex(chunkCache, cache_key) # 0
            /\ chunkCache[CacheIndex(chunkCache, cache_key)].value = bytes

\* C23 witness: both requests of a rewritten file missed although no time
\* passed and nothing was evicted, so the second looked the key up before the
\* first stored it; the cache holds the two bytes they read.
C23_Witness ==
    /\ BothMissed /\ req.start = 0 /\ req.end = 1 /\ writes > 0
    /\ chunkCache[CacheIndex(chunkCache, ChunkKey(req.video_path, 0, 1))].value = <<8, 9>>
    /\ Flatten(req.body) = <<8, 9>>

\* C27 (as claimed): every 206 body equals the bytes the file holds for the
\* range when the request is handled (the file not changing after the request
\* stat-ed it), also when the range was cached before the file changed.
C27_ChunkFresh ==
    (req.pc = "done" /\ req.status = 206 /\ ~req.failed /\ ~req.touched)
        => Flatten(req.body) = SubSeq(Target.content, req.start + 1, req.end + 1)

\* C21 (as claimed): file_sender_range yields exactly one chunk: on a
\* chunk-cache hit the cached blob, without opening the file; on a miss the
\* concatenation of its reads, none longer than 65536 bytes, admitted to the
\* cache or not; on a miss the blob's length is min(end - start + 1, bytes
\* from start to the end of the file), the file not changing meanwhile.
C21_OneBlob ==
    (req.pc = "done" /\ req.status = 206 /\ ~req.failed /\ ~req.aborted) =>
        /\ Len(req.body) = 1
        /\ req.hit =>
              /\ req.opens = 0 /\ req.reads = 0
              /\ LET i == CacheIndex(chunkCache, ChunkKey(req.video_path, req.start, req.end))
                 IN  i # 0 /\ chunkCache[i].value = req.body[1]
        /\ ~req.hit =>
              /\ req.opens = 1
              /\ req.body[1] = Flatten(req.chunks)
              /\ \A i \in 1..Len(req.chunks) :
                    0 < Len(req.chunks[i]) /\ Len(req.chunks[i]) <= READ_SIZE
              /\ ~req.touched =>
                    Len(req.body[1]) =
                        Min(req.end - req.start + 1, Len(Target.content) - req.start)

\* a request for the whole file: what file_sender has yielded so far and where
\* it stands
WholeFileChunks ==
    (req.status = 200 /\ req.range_header = <<>>) =>
        /\ \A i \in 1..Len(req.body) : 0 < Len(req.body[i]) /\ Len(req.body[i]) <= READ_SIZE
        /\ req.opens <= 1
        /\ req.pc = "full_read" =>
              (req.opens = 1 /\ req.fh.open /\ req.pos = Len(Flatten(req.body)))
        /\ (req.pc = "done" /\ ~req.failed /\ ~req.aborted) =>
              /\ req.opens = 1 /\ ~req.fh.open
              /\ req.reads = Len(req.body) + 1
              /\ ~req.touched => Flatten(req.body) = Target.content

\* C22: file_sender yields non-empty chunks of at most 65536 bytes whose
\* concatenation is the content of the (unchanging) file; it opens the file
\* once per invocation and reads from offset 0; it ends after the first empty
\* read, with its handle closed, and it does end.
C22_WholeFile ==
    /\ []WholeFileChunks
    /\ (req.pc \in {"full_open", "full_read"}) ~> (req.pc = "done")

\* C22 witness: a file that grew by a byte after the first read arrived
\* whole in two chunks after three reads; the handle is closed.
C22_Witness ==
    /\ req.pc = "done" /\ req.status = 200 /\ ~req.aborted /\ ~req.failed
    /\ Len(req.body) = 2 /\ req.reads = 3 /\ req.opens = 1 /\ ~req.fh.open
    /\ Flatten(req.body) = Target.content

====
